---------------------------- MODULE Spec2Model ----------------------------
(***************************************************************************)
(* LanLanBot (src/bot.py, src/app.py, src/main.py): a Telegram bot that    *)
(* reports a token's market capitalisation on a schedule, tracks the       *)
(* market-cap milestones reached, and answers investment calculations.     *)
(*                                                                         *)
(* Units.  Market caps are kept in millions of USD (10 stands for          *)
(* 10_000_000), investments in USD, TOTAL_SUPPLY in multiples of the       *)
(* default supply 8888888888.  Python floats are modelled by exact         *)
(* integers and fractions <<numerator, denominator>>; the values a message *)
(* displays are rounded the way the format specification rounds them.      *)
(* Strings that the code parses are sequences of one-character strings.    *)
(***************************************************************************)
EXTENDS Integers, Sequences, FiniteSets, TLC

VARIABLES
    TOTAL_SUPPLY,                       \* bot.py:36 module constant read from the environment
    started,                            \* setup_application has run
    settings,                           \* bot.py:116 dict, in memory
    settings_file,                      \* contents of settings.json
    groups,                             \* bot.py:117 set of registered chats
    groups_file,                        \* contents of groups.json
    last_known_market_cap,              \* bot.py:120
    current_investment_example_index,   \* bot.py:122
    SCHEDULED_INTERVAL,                 \* bot.py:63
    SCHEDULED_INTERVAL_STR,             \* bot.py:62
    jobs,                               \* the JobQueue: the repeating jobs registered
    max_observed,                       \* history: the largest market cap a scheduled_job run observed
    observed,                           \* history: setup_application or scheduled_job fetched a market cap
    ev,                                 \* the handler that is running, its inputs and what it read
    log                                 \* what that handler wrote and sent, in order

vars == <<TOTAL_SUPPLY, started, settings, settings_file, groups, groups_file,
          last_known_market_cap, current_investment_example_index,
          SCHEDULED_INTERVAL, SCHEDULED_INTERVAL_STR, jobs, max_observed, observed, ev, log>>

-----------------------------------------------------------------------------
(* Bounds of the model *)

\* registered chats are drawn from 1..NumChats
NumChats == 2
\* the fetched prices reach the first MaxRung rungs of the ladder (and its top)
MaxRung == 2

(* Program constants *)

\* an optional value is <<>> (None) or <<v>>
None == <<>>
Some(v) == <<v>>

\* a file is missing or holds what the last successful write put there
NoFile == [exists |-> FALSE]
File(data) == [exists |-> TRUE, data |-> data]

SCHEDULED_FIRST == 60
INVESTMENT_EXAMPLES == <<100, 1000, 10000>>

milestones == <<10, 20, 30, 40, 50, 100, 200, 300, 400, 500,
                1000, 1500, 2000, 5000, 10000>>

sorted(s) == SortSeq(s, LAMBDA a, b : a < b)

Range(s) == {s[i] : i \in DOMAIN s}

Chats == 1..NumChats

\* list(groups): the chats in one fixed order
RECURSIVE list(_)
list(S) == IF S = {} THEN <<>>
           ELSE LET c == CHOOSE x \in S : \A y \in S : x <= y
                IN  <<c>> \o list(S \ {c})

-----------------------------------------------------------------------------
(* dicts *)

Get(d, k, default) == IF k \in DOMAIN d THEN d[k] ELSE default

Put(d, k, v) == (k :> v) @@ d

\* load_json: the default when the file is missing, else its contents
load_json(file, default_value) == IF file.exists THEN file.data ELSE default_value

\* mutant: nothing is written
save_json_Skips(file, data, disk_ok) == file

\* save_json: rewrites the file in full; a failed write is logged and swallowed
save_json(file, data, disk_ok) == IF disk_ok THEN File(data) ELSE file

-----------------------------------------------------------------------------
(* arithmetic on fractions <<n, d>>, d # 0, kept in lowest terms *)

Abs(x) == IF x < 0 THEN -x ELSE x

RECURSIVE GCD(_, _)
GCD(a, b) == IF b = 0 THEN a ELSE GCD(b, a % b)

Frac(n, d) == LET g == GCD(Abs(n), Abs(d))
                  s == IF d < 0 THEN -1 ELSE 1
              IN  <<s * (n \div g), s * (d \div g)>>

FMul(a, b) == LET x == Frac(a[1], b[2])
                  y == Frac(b[1], a[2])
              IN  Frac(x[1] * y[1], x[2] * y[2])

FDiv(a, b) == FMul(a, Frac(b[2], b[1]))

\* round n/d (n >= 0, d > 0) to the nearest integer, ties to even
RoundHalfEven(n, d) == LET q == n \div d
                           r == n % d
                       IN  IF 2 * r < d THEN q
                           ELSE IF 2 * r > d THEN q + 1
                           ELSE IF q % 2 = 0 THEN q ELSE q + 1

\* the ":,.2f" rendering of a fraction: sign, whole dollars and cents
Money(a) == LET n == Abs(a[1])
                whole == n \div a[2]
                c == RoundHalfEven((n % a[2]) * 100, a[2])
            IN  [neg |-> a[1] < 0,
                 dollars |-> IF c = 100 THEN whole + 1 ELSE whole,
                 cents |-> IF c = 100 THEN 0 ELSE c]

-----------------------------------------------------------------------------
(* bot.py:126-140 *)

\* the percentage and the bar generate_progress_bar renders; pct is the exact
\* progress_percentage (a fraction), shown is what ":.0f" prints of it
\* mutant: the percentage is not capped by min(100, ...)
generate_progress_bar_NoClamp(current_value, start_milestone, end_milestone) ==
    IF end_milestone <= start_milestone
    THEN IF current_value >= end_milestone
         THEN [text |-> "full", shown |-> 100, filled_blocks |-> 10]
         ELSE [text |-> "Error: Invalid Milestones", shown |-> -1, filled_blocks |-> 0]
    ELSE LET progress_range == end_milestone - start_milestone
             normalized_value == current_value - start_milestone
             progress_percentage ==
                 IF normalized_value < 0 THEN <<0, 1>>
                 ELSE Frac(normalized_value * 100, progress_range)
             filled_blocks == (10 * progress_percentage[1]) \div (100 * progress_percentage[2])
         IN  [text |-> "bar",
              shown |-> RoundHalfEven(progress_percentage[1], progress_percentage[2]),
              filled_blocks |-> filled_blocks]

generate_progress_bar(current_value, start_milestone, end_milestone) ==
    IF end_milestone <= start_milestone
    THEN IF current_value >= end_milestone
         THEN [text |-> "full", shown |-> 100, filled_blocks |-> 10]
         ELSE [text |-> "Error: Invalid Milestones", shown |-> -1, filled_blocks |-> 0]
    ELSE LET progress_range == end_milestone - start_milestone
             normalized_value == current_value - start_milestone
             progress_percentage ==
                 IF normalized_value < 0 THEN <<0, 1>>
                 ELSE IF normalized_value * 100 >= 100 * progress_range THEN <<100, 1>>
                 ELSE Frac(normalized_value * 100, progress_range)
             filled_blocks == (10 * progress_percentage[1]) \div (100 * progress_percentage[2])
         IN  [text |-> "bar",
              shown |-> RoundHalfEven(progress_percentage[1], progress_percentage[2]),
              filled_blocks |-> filled_blocks]

-----------------------------------------------------------------------------
(* The milestone tracker of scheduled_job and lanlan_price_status *)

\* bot.py:637-643: the milestones the loop raises highest_milestone_achieved
\* through, in order; each one is written to settings and saved
RECURSIVE RaisedThrough(_, _, _, _)
RaisedThrough(ms, i, highest, market_cap) ==
    IF i > Len(ms) THEN <<>>
    ELSE IF market_cap >= ms[i] /\ ms[i] > highest
         THEN <<ms[i]>> \o RaisedThrough(ms, i + 1, ms[i], market_cap)
         ELSE RaisedThrough(ms, i + 1, highest, market_cap)

\* mutant: the search for the next milestone accepts the milestone reached
FirstAbove_OrEqual(ms, x) ==
    LET I == {i \in DOMAIN ms : ms[i] >= x}
    IN  IF I = {} THEN None
        ELSE Some(ms[CHOOSE i \in I : \A j \in I : i <= j])

\* "for m in sorted(milestones): if m > x: ... = m; break"
FirstAbove(ms, x) ==
    LET I == {i \in DOMAIN ms : ms[i] > x}
    IN  IF I = {} THEN None
        ELSE Some(ms[CHOOSE i \in I : \A j \in I : i <= j])

\* "for m in sorted(milestones): if m <= x: temp_start = m else: break"
LastBeforeBreak(ms, x) ==
    LET I == {i \in DOMAIN ms : \A j \in 1..i : ms[j] <= x}
    IN  IF I = {} THEN 0
        ELSE ms[CHOOSE i \in I : \A j \in I : j <= i]

\* x * 1.5 (every value the code multiplies is even)
TimesOneAndHalf(x) == (x * 3) \div 2

\* mutant: the highest milestone follows the current market cap down
UpdateHighest_FollowsCap(highest, market_cap) ==
    LastBeforeBreak(sorted(milestones), market_cap)

\* mutant: the loop forgets to compare the milestone with the market cap
UpdateHighest_NoCapTest(highest, market_cap) ==
    LET raised == RaisedThrough(sorted(milestones), 1, highest,
                                milestones[Len(milestones)])
    IN  IF raised = <<>> THEN highest ELSE raised[Len(raised)]

\* mutant: a run climbs one milestone only
UpdateHighest_OneStep(highest, market_cap) ==
    LET raised == RaisedThrough(sorted(milestones), 1, highest, market_cap)
    IN  IF raised = <<>> THEN highest ELSE raised[1]

UpdateHighest(highest, market_cap) ==
    LET raised == RaisedThrough(sorted(milestones), 1, highest, market_cap)
    IN  IF raised = <<>> THEN highest ELSE raised[Len(raised)]

\* mutant: the range stays on the highest milestone when the market cap falls below it
ProgressRange_Anchored(highest, market_cap) ==
    LET above == FirstAbove(sorted(milestones), highest)
    IN  IF above # None THEN <<highest, above[1]>>
        ELSE <<milestones[Len(milestones)], TimesOneAndHalf(milestones[Len(milestones)])>>

\* bot.py:645-672 and 275-304: <<start, end>> handed to generate_progress_bar
ProgressRange(highest, market_cap) ==
    LET ms == sorted(milestones)
        above == FirstAbove(ms, highest)
        start1 == IF above # None THEN highest
                  ELSE IF Len(milestones) > 0 THEN milestones[Len(milestones)] ELSE 0
        end1 == IF above # None THEN above
                ELSE IF Len(milestones) > 0 THEN Some(TimesOneAndHalf(start1)) ELSE Some(10)
    IN  IF market_cap < start1
        THEN LET temp_start == LastBeforeBreak(ms, market_cap)
                 over == FirstAbove(ms, market_cap)
                 end2 == IF over # None THEN over ELSE end1
                 end3 == IF end2 = None
                         THEN IF temp_start > 0 THEN TimesOneAndHalf(temp_start) ELSE 10
                         ELSE end2[1]
             IN  <<temp_start, end3>>
        ELSE <<start1, end1[1]>>

\* mutant: the crossing excludes the market cap itself
crossed_milestones_Below(last_known, market_cap) ==
    IF last_known = None THEN <<>>
    ELSE SelectSeq(sorted(milestones), LAMBDA m : last_known[1] < m /\ m < market_cap)

\* mutant: the crossing includes the previous observation itself
crossed_milestones_FromLast(last_known, market_cap) ==
    IF last_known = None THEN <<>>
    ELSE SelectSeq(sorted(milestones), LAMBDA m : last_known[1] <= m /\ m <= market_cap)

\* bot.py:676-678: the milestones a run celebrates, in order
crossed_milestones(last_known, market_cap) ==
    IF last_known = None THEN <<>>
    ELSE SelectSeq(sorted(milestones), LAMBDA m : last_known[1] < m /\ m <= market_cap)

-----------------------------------------------------------------------------
(* bot.py:42-53 *)

Digits == <<"0", "1", "2", "3", "4", "5", "6", "7", "8", "9">>

IsDigit(c) == \E i \in DOMAIN Digits : Digits[i] = c

DigitValue(c) == (CHOOSE i \in DOMAIN Digits : Digits[i] = c) - 1

IsSpace(c) == c = " "

\* the length of the longest prefix of s from position from on whose characters satisfy P
RunLength(s, from, P(_)) ==
    LET I == {n \in 0..(Len(s) - from + 1) : \A j \in from..(from + n - 1) : P(s[j])}
    IN  CHOOSE n \in I : \A k \in I : k <= n

\* int() of a string of digits
RECURSIVE int(_)
int(ds) == IF ds = <<>> THEN 0
           ELSE 10 * int(SubSeq(ds, 1, Len(ds) - 1)) + DigitValue(ds[Len(ds)])

\* re.match(r'(\d+)\s*<unit>', s): the digits matched, or None.  re.match anchors
\* the pattern at the start of s only; whatever follows the unit is ignored.
match_unit(s, unit) ==
    LET nd == RunLength(s, 1, IsDigit)
        ns == RunLength(s, nd + 1, IsSpace)
        at == nd + ns + 1
    IN  IF nd >= 1 /\ at <= Len(s) /\ s[at] = unit
        THEN Some(SubSeq(s, 1, nd))
        ELSE None

\* mutant: hours are counted as minutes
parse_interval_string_Minutes(interval_str) ==
    LET match_h == match_unit(interval_str, "h")
        match_m == match_unit(interval_str, "m")
    IN  IF match_h # None THEN Some(int(match_h[1]) * 60)
        ELSE IF match_m # None THEN Some(int(match_m[1]) * 60)
        ELSE None

parse_interval_string(interval_str) ==
    LET match_h == match_unit(interval_str, "h")
        match_m == match_unit(interval_str, "m")
    IN  IF match_h # None THEN Some(int(match_h[1]) * 3600)
        ELSE IF match_m # None THEN Some(int(match_m[1]) * 60)
        ELSE None

-----------------------------------------------------------------------------
(* The environment *)

\* TOTAL_SUPPLY as the environment can set it (bot.py:36), in default supplies
TotalSupplyValues == {-1, 0, 1, 2}

\* the default supply, and none
UsualSupplyValues == {0, 1}

\* the SCHEDULED_INTERVAL environment string (bot.py:62)
EnvScheduledInterval == {<<"2", "h">>}

\* token prices the subgraph can report, as the market cap of one default supply
Prices == {4, 10} \cup {milestones[i] + 2 : i \in 1..MaxRung} \cup {12000}

\* bot.py:143-198: None on any failure, else token_price_usd * TOTAL_SUPPLY
FetchResults == {None} \cup {Some(p * TOTAL_SUPPLY) : p \in Prices}

EmptyDict == [k \in {} |-> 0]

-----------------------------------------------------------------------------
(* What a handler leaves in the log *)

Saved(file, data) == [type |-> "save", file |-> file, data |-> data]

\* mutant: the first failed send ends the loop
Broadcast_StopAtFailure(gs, msg, down) ==
    LET F == {i \in 1..Len(gs) : gs[i] \in down}
        last == IF F = {} THEN Len(gs) ELSE CHOOSE i \in F : \A j \in F : i <= j
    IN  [i \in 1..last |-> [type |-> "send", to |-> gs[i], ok |-> gs[i] \notin down, msg |-> msg]]

\* one send per chat of gs, in order; the sends to the chats in down fail
Broadcast(gs, msg, down) ==
    [i \in 1..Len(gs) |-> [type |-> "send", to |-> gs[i], ok |-> gs[i] \notin down, msg |-> msg]]

Reply(chat, msg) == [type |-> "send", to |-> chat, ok |-> TRUE, msg |-> msg]

RECURSIVE Flatten(_)
Flatten(ss) == IF ss = <<>> THEN <<>> ELSE ss[1] \o Flatten(Tail(ss))

Job(name, callback, interval, first) ==
    [name |-> name, callback |-> callback, interval |-> interval, first |-> first]

\* mutant: the jobs found under the name are not removed
RemoveJobsByName_Keep(q, name) == q

\* job_queue.get_jobs_by_name(name), each job.schedule_removal()
RemoveJobsByName(q, name) == SelectSeq(q, LAMBDA j : j.name # name)

-----------------------------------------------------------------------------
(* Module import: bot.py:36, 62-66, 116-122 *)

\* no handler is running: the event loop runs one handler at a time
Idle == [op |-> "idle"]

ImportState(supplies) ==
    /\ TOTAL_SUPPLY \in supplies
    /\ started = FALSE
    /\ settings = EmptyDict
    /\ settings_file = NoFile
    /\ groups = {}
    /\ groups_file = NoFile
    /\ last_known_market_cap = None
    /\ current_investment_example_index = 0
    /\ \E env \in EnvScheduledInterval :
          /\ SCHEDULED_INTERVAL_STR = env
          /\ SCHEDULED_INTERVAL = IF parse_interval_string(env) = None THEN 7200
                                  ELSE parse_interval_string(env)[1]
    /\ jobs = <<>>
    /\ max_observed = None
    /\ observed = FALSE
    /\ log = <<>>

Import(supplies) == ImportState(supplies) /\ ev = Idle

-----------------------------------------------------------------------------
(* bot.py:750-833 *)

\* bot.py:808-830: the jobs registered at startup.  Line 815 names
\* SCHEDULEED_INTERVAL_STR, which is not defined: formatting the log message
\* raises NameError after the first job is registered, and the except clause
\* at 828 ends the block before the second job is scheduled.
StartupJobs(interval, random_interval) ==
    IF interval > 0
    THEN <<Job("scheduled_price_update", "scheduled_job", interval, SCHEDULED_FIRST)>>
    ELSE IF random_interval > 0
         THEN <<Job("random_buy_now_job", "random_buy_now_scheduled_job",
                    random_interval, SCHEDULED_FIRST + 120)>>
         ELSE <<>>

\* bot.py:788-789
InitialLastKnown(initial_mc) == IF initial_mc # None THEN initial_mc ELSE Some(0)

\* bot.py:763-830: what setup_application loads, saves and registers
SetupState(initial_mc, disk_ok) ==
    /\ LET loaded == load_json(settings_file,
                        [highest_milestone_achieved |-> 0,
                         scheduled_interval_seconds |-> SCHEDULED_INTERVAL,
                         scheduled_interval_str |-> SCHEDULED_INTERVAL_STR,
                         random_buy_now_interval_seconds |-> 14400,
                         random_buy_now_interval_str |-> <<"4", "h">>])
           interval == Get(loaded, "scheduled_interval_seconds", SCHEDULED_INTERVAL)
           random_interval == Get(loaded, "random_buy_now_interval_seconds", 14400)
           updated == Put(Put(loaded, "default_image_url", "DEFAULT_IMAGE_URL"),
                          "scheduled_and_check_price_image_url",
                          "SCHEDULED_AND_CHECK_PRICE_IMAGE_URL")
       IN  /\ settings' = updated
           /\ SCHEDULED_INTERVAL' = interval
           /\ SCHEDULED_INTERVAL_STR' =
                  Get(loaded, "scheduled_interval_str", SCHEDULED_INTERVAL_STR)
           /\ settings_file' = save_json(settings_file, updated, disk_ok)
           /\ jobs' = StartupJobs(interval, random_interval)
           /\ log' = <<Saved("settings", updated)>>
    /\ groups' = Range(load_json(groups_file, <<>>))
    /\ last_known_market_cap' = InitialLastKnown(initial_mc)
    /\ started' = TRUE
    /\ observed' = (initial_mc # None)
    /\ UNCHANGED <<TOTAL_SUPPLY, groups_file, current_investment_example_index,
                   max_observed>>

setup_application(initial_mc, disk_ok) ==
    /\ ev = Idle
    /\ ~started
    /\ SetupState(initial_mc, disk_ok)
    /\ ev' = [op |-> "setup_application", fetch |-> initial_mc, disk_ok |-> disk_ok]

-----------------------------------------------------------------------------
(* bot.py:201-220 *)

\* mutant: the chat list is saved before the chat is added
start_SavesBeforeAdding(chat_id, disk_ok) ==
    /\ ev = Idle
    /\ started
    /\ groups' = groups \cup {chat_id}
    /\ groups_file' = save_json(groups_file, list(groups), disk_ok)
    /\ ev' = [op |-> "start", chat |-> chat_id, disk_ok |-> disk_ok]
    /\ log' = <<Saved("groups", list(groups)), Reply(chat_id, [kind |-> "main_menu"])>>
    /\ UNCHANGED <<TOTAL_SUPPLY, started, settings, settings_file, last_known_market_cap,
                   current_investment_example_index, SCHEDULED_INTERVAL,
                   SCHEDULED_INTERVAL_STR, jobs, max_observed, observed>>

start(chat_id, disk_ok) ==
    /\ ev = Idle
    /\ started
    /\ groups' = groups \cup {chat_id}
    /\ groups_file' = save_json(groups_file, list(groups'), disk_ok)
    /\ ev' = [op |-> "start", chat |-> chat_id, disk_ok |-> disk_ok]
    /\ log' = <<Saved("groups", list(groups')), Reply(chat_id, [kind |-> "main_menu"])>>
    /\ UNCHANGED <<TOTAL_SUPPLY, started, settings, settings_file, last_known_market_cap,
                   current_investment_example_index, SCHEDULED_INTERVAL,
                   SCHEDULED_INTERVAL_STR, jobs, max_observed, observed>>

-----------------------------------------------------------------------------
(* bot.py:619-733 *)

\* the scheduled update message (bot.py:717-726), by the values it displays
UpdateMessage(market_cap, range, investment) ==
    [kind |-> "update",
     mc |-> market_cap,
     start |-> range[1],
     next_target |-> range[2],
     progress |-> generate_progress_bar(market_cap, range[1], range[2]),
     invested |-> investment,
     worth |-> Money(FMul(FDiv(Frac(investment, 1), Frac(5, TOTAL_SUPPLY)),
                          Frac(market_cap, TOTAL_SUPPLY)))]

MilestoneMessage(milestone_cap, market_cap) ==
    [kind |-> "milestone", milestone_cap |-> milestone_cap, mc |-> market_cap]

\* mutant: a run whose fetch fails forgets the last known market cap
scheduled_job_FailureForgets(fetched, disk_ok, down) ==
    /\ ev = Idle
    /\ started
    /\ \E i \in DOMAIN jobs : jobs[i].callback = "scheduled_job"
    /\ ev' = [op |-> "scheduled_job", fetch |-> fetched, disk_ok |-> disk_ok,
              last_known |-> last_known_market_cap,
              highest |-> Get(settings, "highest_milestone_achieved", 0),
              groups |-> groups, observed |-> observed,
              ran_before |-> max_observed # None]
    /\ observed' = (observed \/ fetched # None)
    /\ IF fetched = None \/ TOTAL_SUPPLY = 0
       THEN /\ log' = <<>>
            /\ last_known_market_cap' = None
            /\ UNCHANGED <<settings, settings_file, current_investment_example_index,
                           max_observed>>
       ELSE LET market_cap == fetched[1]
                before == Get(settings, "highest_milestone_achieved", 0)
                raised == RaisedThrough(sorted(milestones), 1, before, market_cap)
                highest_milestone_achieved == UpdateHighest(before, market_cap)
                saved == IF highest_milestone_achieved = before THEN settings
                         ELSE Put(settings, "highest_milestone_achieved",
                                  highest_milestone_achieved)
                range == ProgressRange(highest_milestone_achieved, market_cap)
                crossed == crossed_milestones(last_known_market_cap, market_cap)
                investment == INVESTMENT_EXAMPLES[current_investment_example_index + 1]
            IN  /\ settings' = saved
                /\ settings_file' = IF highest_milestone_achieved = before
                                    THEN settings_file
                                    ELSE save_json(settings_file, saved, disk_ok)
                /\ last_known_market_cap' = Some(market_cap)
                /\ max_observed' = IF max_observed # None /\ max_observed[1] >= market_cap
                                   THEN max_observed ELSE Some(market_cap)
                /\ current_investment_example_index' =
                       (current_investment_example_index + 1) % Len(INVESTMENT_EXAMPLES)
                /\ log' =
                       [i \in 1..Len(raised) |->
                           Saved("settings",
                                 Put(settings, "highest_milestone_achieved", raised[i]))]
                       \o Flatten([i \in 1..Len(crossed) |->
                              Broadcast(list(groups),
                                        MilestoneMessage(crossed[i], market_cap), down)])
                       \o Broadcast(list(groups),
                                    UpdateMessage(market_cap, range, investment), down)
    /\ UNCHANGED <<TOTAL_SUPPLY, started, groups, groups_file, SCHEDULED_INTERVAL,
                   SCHEDULED_INTERVAL_STR, jobs>>

scheduled_job(fetched, disk_ok, down) ==
    /\ ev = Idle
    /\ started
    /\ \E i \in DOMAIN jobs : jobs[i].callback = "scheduled_job"
    /\ ev' = [op |-> "scheduled_job", fetch |-> fetched, disk_ok |-> disk_ok,
              last_known |-> last_known_market_cap,
              highest |-> Get(settings, "highest_milestone_achieved", 0),
              groups |-> groups, observed |-> observed,
              ran_before |-> max_observed # None]
    /\ observed' = (observed \/ fetched # None)
    /\ IF fetched = None \/ TOTAL_SUPPLY = 0
       THEN /\ log' = <<>>
            /\ UNCHANGED <<settings, settings_file, last_known_market_cap,
                           current_investment_example_index, max_observed>>
       ELSE LET market_cap == fetched[1]
                before == Get(settings, "highest_milestone_achieved", 0)
                raised == RaisedThrough(sorted(milestones), 1, before, market_cap)
                highest_milestone_achieved == UpdateHighest(before, market_cap)
                saved == IF highest_milestone_achieved = before THEN settings
                         ELSE Put(settings, "highest_milestone_achieved",
                                  highest_milestone_achieved)
                range == ProgressRange(highest_milestone_achieved, market_cap)
                crossed == crossed_milestones(last_known_market_cap, market_cap)
                investment == INVESTMENT_EXAMPLES[current_investment_example_index + 1]
            IN  /\ settings' = saved
                /\ settings_file' = IF highest_milestone_achieved = before
                                    THEN settings_file
                                    ELSE save_json(settings_file, saved, disk_ok)
                /\ last_known_market_cap' = Some(market_cap)
                /\ max_observed' = IF max_observed # None /\ max_observed[1] >= market_cap
                                   THEN max_observed ELSE Some(market_cap)
                /\ current_investment_example_index' =
                       (current_investment_example_index + 1) % Len(INVESTMENT_EXAMPLES)
                /\ log' =
                       [i \in 1..Len(raised) |->
                           Saved("settings",
                                 Put(settings, "highest_milestone_achieved", raised[i]))]
                       \o Flatten([i \in 1..Len(crossed) |->
                              Broadcast(list(groups),
                                        MilestoneMessage(crossed[i], market_cap), down)])
                       \o Broadcast(list(groups),
                                    UpdateMessage(market_cap, range, investment), down)
    /\ UNCHANGED <<TOTAL_SUPPLY, started, groups, groups_file, SCHEDULED_INTERVAL,
                   SCHEDULED_INTERVAL_STR, jobs>>

-----------------------------------------------------------------------------
(* bot.py:523-564 *)

\* the ":,.0f" rendering of a fraction
Whole(a) == [neg |-> a[1] < 0, dollars |-> RoundHalfEven(Abs(a[1]), a[2])]

\* random.randint(100, 10000): the two ends stand for the range
RandomAmounts == {100, 10000}

random_buy_now_scheduled_job(fetched, random_investment_amount, down) ==
    /\ ev = Idle
    /\ started
    /\ \E i \in DOMAIN jobs : jobs[i].callback = "random_buy_now_scheduled_job"
    /\ ev' = [op |-> "random_buy_now_scheduled_job", fetch |-> fetched,
              amount |-> random_investment_amount, groups |-> groups]
    /\ IF fetched = None \/ TOTAL_SUPPLY = 0
       THEN log' = <<>>
       ELSE LET price == Frac(fetched[1], TOTAL_SUPPLY)
                tokens_bought == FDiv(Frac(random_investment_amount, 1), price)
            IN  IF price[1] = 0
                THEN log' = <<>>
                ELSE log' = Broadcast(list(groups),
                               [kind |-> "random_buy_now",
                                amount |-> random_investment_amount,
                                mc |-> fetched[1],
                                future_value_500m |->
                                    Whole(FMul(tokens_bought, Frac(500, TOTAL_SUPPLY))),
                                future_value_1b |->
                                    Whole(FMul(tokens_bought, Frac(1000, TOTAL_SUPPLY)))],
                               down)
    /\ UNCHANGED <<TOTAL_SUPPLY, started, settings, settings_file, groups, groups_file,
                   last_known_market_cap, current_investment_example_index,
                   SCHEDULED_INTERVAL, SCHEDULED_INTERVAL_STR, jobs, max_observed, observed>>

-----------------------------------------------------------------------------
(* bot.py:259-336 *)

\* what lanlan_price_status sends to the chat; the photo falls back to text
PriceStatusLog(chat_id, fetched, photo_ok) ==
    IF fetched = None THEN <<Reply(chat_id, [kind |-> "fetch_failed"])>>
    ELSE IF TOTAL_SUPPLY = 0 THEN <<Reply(chat_id, [kind |-> "supply_zero"])>>
    ELSE LET market_cap == fetched[1]
             highest_achieved == Get(settings, "highest_milestone_achieved", 0)
             range == ProgressRange(highest_achieved, market_cap)
             message == [kind |-> "price_status",
                         mc |-> market_cap,
                         start |-> range[1],
                         next_target |-> range[2],
                         progress |-> generate_progress_bar(market_cap, range[1], range[2])]
         IN  IF photo_ok
             THEN <<Reply(chat_id, message)>>
             ELSE <<[type |-> "send", to |-> chat_id, ok |-> FALSE, msg |-> message],
                    Reply(chat_id, message)>>

(* bot.py:242-257 *)

UsageText == [kind |-> "usage"]

\* mutant: the price check records the milestones it sees
button_handler_Records(chat_id, data, fetched, photo_ok) ==
    /\ ev = Idle
    /\ started
    /\ ev' = [op |-> "button_handler", chat |-> chat_id, data |-> data,
              fetch |-> IF data = "check_lanlan_price" THEN fetched ELSE None,
              highest |-> Get(settings, "highest_milestone_achieved", 0)]
    /\ log' = IF data = "check_lanlan_price"
              THEN <<Reply(chat_id, [kind |-> "fetching"])>>
                   \o PriceStatusLog(chat_id, fetched, photo_ok)
              ELSE IF data = "start_lanlan_calculation"
              THEN <<Reply(chat_id, UsageText)>>
              ELSE <<>>
    /\ settings' = IF data = "check_lanlan_price" /\ fetched # None
                   THEN Put(settings, "highest_milestone_achieved",
                            UpdateHighest(Get(settings, "highest_milestone_achieved", 0),
                                          fetched[1]))
                   ELSE settings
    /\ UNCHANGED <<TOTAL_SUPPLY, started, settings_file, groups, groups_file,
                   last_known_market_cap, current_investment_example_index,
                   SCHEDULED_INTERVAL, SCHEDULED_INTERVAL_STR, jobs, max_observed, observed>>

button_handler(chat_id, data, fetched, photo_ok) ==
    /\ ev = Idle
    /\ started
    /\ ev' = [op |-> "button_handler", chat |-> chat_id, data |-> data,
              fetch |-> IF data = "check_lanlan_price" THEN fetched ELSE None,
              highest |-> Get(settings, "highest_milestone_achieved", 0)]
    /\ log' = IF data = "check_lanlan_price"
              THEN <<Reply(chat_id, [kind |-> "fetching"])>>
                   \o PriceStatusLog(chat_id, fetched, photo_ok)
              ELSE IF data = "start_lanlan_calculation"
              THEN <<Reply(chat_id, UsageText)>>
              ELSE <<>>
    /\ UNCHANGED <<TOTAL_SUPPLY, started, settings, settings_file, groups, groups_file,
                   last_known_market_cap, current_investment_example_index,
                   SCHEDULED_INTERVAL, SCHEDULED_INTERVAL_STR, jobs, max_observed, observed>>

(* bot.py:734-746.  The Update that back_to_main_menu builds carries the chat  *)
(* but no message: start registers the chat and saves, then update.message is   *)
(* None and reply_photo raises before anything is sent.                         *)

back_to_main_menu(chat_id, disk_ok) ==
    /\ ev = Idle
    /\ started
    /\ groups' = groups \cup {chat_id}
    /\ groups_file' = save_json(groups_file, list(groups'), disk_ok)
    /\ ev' = [op |-> "back_to_main_menu", chat |-> chat_id, disk_ok |-> disk_ok,
              raised |-> "AttributeError"]
    /\ log' = <<Saved("groups", list(groups'))>>
    /\ UNCHANGED <<TOTAL_SUPPLY, started, settings, settings_file, last_known_market_cap,
                   current_investment_example_index, SCHEDULED_INTERVAL,
                   SCHEDULED_INTERVAL_STR, jobs, max_observed, observed>>

(* bot.py:222-240, 465-472: the commands that only reply *)

StaticCommands == {"help", "wen", "whomadethebot", "setimage"}

static_reply(chat_id, command) ==
    /\ ev = Idle
    /\ started
    /\ ev' = [op |-> command, chat |-> chat_id]
    /\ log' = <<Reply(chat_id, [kind |-> command])>>
    /\ UNCHANGED <<TOTAL_SUPPLY, started, settings, settings_file, groups, groups_file,
                   last_known_market_cap, current_investment_example_index,
                   SCHEDULED_INTERVAL, SCHEDULED_INTERVAL_STR, jobs, max_observed, observed>>

-----------------------------------------------------------------------------
(* bot.py:338-462 *)

\* float("nan"): not a number.  It is kept apart from the numbers <<v>> as a
\* pair, and every comparison with it is false.
NaN == <<1, 0>>

IsNaN(x) == Len(x) = 2

\* x <= 0 on a float
NonPositive(x) == ~IsNaN(x) /\ x[1] <= 0

\* float(s) on an optionally signed string of digits or "nan": None stands for
\* ValueError
float(s) ==
    LET signed == Len(s) >= 1 /\ s[1] \in {"-", "+"}
        body == IF signed THEN Tail(s) ELSE s
    IN  IF body # <<>> /\ RunLength(body, 1, IsDigit) = Len(body)
        THEN Some(IF signed /\ s[1] = "-" THEN -int(body) ELSE int(body))
        ELSE IF body = <<"n", "a", "n">> THEN NaN
        ELSE None

\* bot.py:430
target_caps == <<100, 500, 1000>>

\* mutant: the investment is multiplied by the price
tokens_for_Times(investment, price) == FMul(Frac(investment, 1), price)

\* bot.py:426, 380, 543: tokens = investment / price
tokens_for(investment, price) == FDiv(Frac(investment, 1), price)

\* bot.py:403-458: the reply to "/lanlan <investment> <initial_market_cap>"
InvestmentReply(arg1, arg2, fetched) ==
    LET investment == float(arg1)
        initial_market_cap == float(arg2)
    IN  IF investment = None \/ initial_market_cap = None
        THEN [kind |-> "not_numbers"]
        ELSE IF NonPositive(investment) \/ NonPositive(initial_market_cap)
        THEN [kind |-> "positive_numbers_please"]
        ELSE IF fetched = None THEN [kind |-> "fetch_failed"]
        ELSE IF TOTAL_SUPPLY = 0 THEN [kind |-> "supply_zero"]
        ELSE IF IsNaN(investment) \/ IsNaN(initial_market_cap)
        THEN [kind |-> "calculation_of_nan", mc |-> fetched[1]]
        ELSE LET initial_price == Frac(initial_market_cap[1], TOTAL_SUPPLY)
                 current_price == Frac(fetched[1], TOTAL_SUPPLY)
                 tokens == tokens_for(investment[1], initial_price)
             IN  IF initial_price[1] = 0 THEN [kind |-> "initial_price_zero"]
                 ELSE [kind |-> "calculation",
                       investment |-> investment[1],
                       initial_market_cap |-> initial_market_cap[1],
                       mc |-> fetched[1],
                       tokens |-> tokens,
                       current_value |-> Money(FMul(tokens, current_price)),
                       future_projections |->
                           [i \in DOMAIN target_caps |->
                               Money(FMul(tokens, Frac(target_caps[i], TOTAL_SUPPLY)))]]

\* bot.py:358-400: the reply to "/lanlan x <amount_bought_now> x <target_market_cap>"
FutureBuyReply(arg1, arg3, fetched) ==
    LET amount_bought_now == float(arg1)
        target_market_cap_new == float(arg3)
    IN  IF amount_bought_now = None \/ target_market_cap_new = None
        THEN [kind |-> "not_numbers"]
        ELSE IF NonPositive(amount_bought_now) \/ NonPositive(target_market_cap_new)
        THEN [kind |-> "positive_numbers_please"]
        ELSE IF fetched = None THEN [kind |-> "fetch_failed"]
        ELSE IF TOTAL_SUPPLY = 0 THEN [kind |-> "supply_zero"]
        ELSE LET current_price == Frac(fetched[1], TOTAL_SUPPLY)
             IN  IF current_price[1] = 0 THEN [kind |-> "current_price_zero"]
                 ELSE IF IsNaN(amount_bought_now) \/ IsNaN(target_market_cap_new)
                 THEN [kind |-> "future_buy_of_nan", mc |-> fetched[1]]
                 ELSE LET tokens_bought == tokens_for(amount_bought_now[1], current_price)
                      IN  [kind |-> "future_buy",
                           amount |-> amount_bought_now[1],
                           mc |-> fetched[1],
                           target |-> target_market_cap_new[1],
                           tokens |-> tokens_bought,
                           future_value |->
                               Money(FMul(tokens_bought,
                                          Frac(target_market_cap_new[1], TOTAL_SUPPLY)))]

LanlanReply(args, fetched) ==
    IF Len(args) = 4 /\ args[1] = <<"x">> /\ args[3] = <<"x">>
    THEN FutureBuyReply(args[2], args[4], fetched)
    ELSE IF Len(args) = 2 THEN InvestmentReply(args[1], args[2], fetched)
    ELSE UsageText

\* argument lists of /lanlan; market caps in millions, so "5" is 5_000_000
LanlanArgs ==
    {<< >>,
     << <<"1", "0", "0">> >>,
     << <<"1", "0", "0">>, <<"5">> >>,
     << <<"3">>, <<"7">> >>,
     << <<"0">>, <<"5">> >>,
     << <<"1", "0", "0">>, <<"-", "5">> >>,
     << <<"a">>, <<"5">> >>,
     << <<"n", "a", "n">>, <<"5">> >>,
     << <<"x">>, <<"1", "0", "0">>, <<"x">>, <<"n", "a", "n">> >>,
     << <<"x">>, <<"1", "0", "0">>, <<"x">>, <<"1", "0", "0">> >>,
     << <<"x">>, <<"0">>, <<"x">>, <<"1", "0", "0">> >>,
     << <<"1">>, <<"2">>, <<"3">> >>}

lanlan_command(chat_id, args, fetched) ==
    /\ ev = Idle
    /\ started
    /\ ev' = [op |-> "lanlan_command", chat |-> chat_id, args |-> args, fetch |-> fetched]
    /\ log' = <<Reply(chat_id, LanlanReply(args, fetched))>>
    /\ UNCHANGED <<TOTAL_SUPPLY, started, settings, settings_file, groups, groups_file,
                   last_known_market_cap, current_investment_example_index,
                   SCHEDULED_INTERVAL, SCHEDULED_INTERVAL_STR, jobs, max_observed, observed>>

-----------------------------------------------------------------------------
(* bot.py:474-520 and 567-614 *)

Users == {1, 2}

\* context.bot.get_chat_administrators(chat_id): a list of users, or it raises
AdminLookups == {[raised |-> FALSE, admins |-> A] : A \in {{}, {1}}}
                    \cup {[raised |-> TRUE, admins |-> {}]}

\* bot.py:487, 580: any(admin.user.id == user_id for admin in admins)
IsAdmin(user_id, admins) == \E a \in admins : a = user_id

\* argument lists of /setschedule and /setschedule2
ScheduleArgs ==
    {<< >>,
     << <<"2", "h">> >>,
     << <<"3", "0", "m">> >>,
     << <<"0", "h">> >>,
     << <<"4", "5", "x">> >>,
     << <<"2", "h", "x">> >>,
     << <<"1", "h">>, <<"1", "m">> >>}

\* mutant: the administrator list is fetched but the caller is not looked up
ScheduleVerdict_NoAdminTest(chat_type, user_id, lookup, args) ==
    IF chat_type = "private" THEN "group_only"
    ELSE IF lookup.raised THEN "error"
    ELSE IF Len(args) # 1 THEN "usage"
    ELSE IF parse_interval_string(args[1]) = None
            \/ parse_interval_string(args[1])[1] <= 0 THEN "invalid_interval"
    ELSE "accepted"

\* bot.py:481-499, 574-592: the reply that refuses the command, or "accepted"
ScheduleVerdict(chat_type, user_id, lookup, args) ==
    IF chat_type = "private" THEN "group_only"
    ELSE IF lookup.raised THEN "error"
    ELSE IF ~IsAdmin(user_id, lookup.admins) THEN "admins_only"
    ELSE IF Len(args) # 1 THEN "usage"
    ELSE IF parse_interval_string(args[1]) = None
            \/ parse_interval_string(args[1])[1] <= 0 THEN "invalid_interval"
    ELSE "accepted"

setschedule(chat_id, chat_type, user_id, lookup, args, disk_ok) ==
    /\ ev = Idle
    /\ started
    /\ LET verdict == ScheduleVerdict(chat_type, user_id, lookup, args)
       IN  /\ ev' = [op |-> "setschedule", chat |-> chat_id, chat_type |-> chat_type,
                     user |-> user_id, lookup |-> lookup, args |-> args,
                     verdict |-> verdict]
           /\ IF verdict = "accepted"
              THEN LET new_interval_str == args[1]
                       new_interval_seconds == parse_interval_string(new_interval_str)[1]
                       updated == Put(Put(settings, "scheduled_interval_seconds",
                                          new_interval_seconds),
                                      "scheduled_interval_str", new_interval_str)
                   IN  /\ SCHEDULED_INTERVAL' = new_interval_seconds
                       /\ SCHEDULED_INTERVAL_STR' = new_interval_str
                       /\ settings' = updated
                       /\ settings_file' = save_json(settings_file, updated, disk_ok)
                       /\ jobs' = Append(RemoveJobsByName(jobs, "scheduled_price_update"),
                                         Job("scheduled_price_update", "scheduled_job",
                                             new_interval_seconds, SCHEDULED_FIRST))
                       /\ log' = <<Saved("settings", updated),
                                   Reply(chat_id, [kind |-> "schedule_updated",
                                                   interval |-> new_interval_str])>>
              ELSE /\ log' = <<Reply(chat_id, [kind |-> verdict])>>
                   /\ UNCHANGED <<SCHEDULED_INTERVAL, SCHEDULED_INTERVAL_STR, settings,
                                  settings_file, jobs>>
    /\ UNCHANGED <<TOTAL_SUPPLY, started, groups, groups_file, last_known_market_cap,
                   current_investment_example_index, max_observed, observed>>

setschedule2(chat_id, chat_type, user_id, lookup, args, disk_ok) ==
    /\ ev = Idle
    /\ started
    /\ LET verdict == ScheduleVerdict(chat_type, user_id, lookup, args)
       IN  /\ ev' = [op |-> "setschedule2", chat |-> chat_id, chat_type |-> chat_type,
                     user |-> user_id, lookup |-> lookup, args |-> args,
                     verdict |-> verdict]
           /\ IF verdict = "accepted"
              THEN LET new_interval_str == args[1]
                       new_interval_seconds == parse_interval_string(new_interval_str)[1]
                       updated == Put(Put(settings, "random_buy_now_interval_seconds",
                                          new_interval_seconds),
                                      "random_buy_now_interval_str", new_interval_str)
                   IN  /\ settings' = updated
                       /\ settings_file' = save_json(settings_file, updated, disk_ok)
                       /\ jobs' = Append(RemoveJobsByName(jobs, "random_buy_now_job"),
                                         Job("random_buy_now_job",
                                             "random_buy_now_scheduled_job",
                                             new_interval_seconds, 60))
                       /\ log' = <<Saved("settings", updated),
                                   Reply(chat_id, [kind |-> "schedule2_updated",
                                                   interval |-> new_interval_str])>>
              ELSE /\ log' = <<Reply(chat_id, [kind |-> verdict])>>
                   /\ UNCHANGED <<settings, settings_file, jobs>>
    /\ UNCHANGED <<TOTAL_SUPPLY, started, groups, groups_file, last_known_market_cap,
                   current_investment_example_index, SCHEDULED_INTERVAL,
                   SCHEDULED_INTERVAL_STR, max_observed, observed>>

-----------------------------------------------------------------------------

\* the handler returns and the event loop is idle again
Return ==
    /\ ev # Idle
    /\ ev' = Idle
    /\ log' = <<>>
    /\ UNCHANGED <<TOTAL_SUPPLY, started, settings, settings_file, groups, groups_file,
                   last_known_market_cap, current_investment_example_index,
                   SCHEDULED_INTERVAL, SCHEDULED_INTERVAL_STR, jobs, max_observed, observed>>

-----------------------------------------------------------------------------
(* The whole bot.  The tracker's inputs are drawn in full; the commands that  *)
(* read nothing of the tracker are drawn from the few inputs below, and in    *)
(* full in SpecCalc and SpecSchedule.                                         *)

DiskOutcomes == {TRUE}

FewFetchResults == {None, Some(12 * TOTAL_SUPPLY)}

FewLanlanArgs == {<< >>, << <<"1", "0", "0">>, <<"5">> >>}

FewScheduleArgs == {<< <<"3", "0", "m">> >>, << <<"4", "5", "x">> >>}

FewAdminLookups == {[raised |-> FALSE, admins |-> {1}]}

Init == Import(UsualSupplyValues)

Next ==
    \/ \E f \in FetchResults, d \in DiskOutcomes : setup_application(f, d)
    \/ \E c \in Chats, d \in DiskOutcomes : start(c, d)
    \/ \E f \in FetchResults, d \in DiskOutcomes, down \in SUBSET groups :
          scheduled_job(f, d, down)
    \/ \E f \in FewFetchResults, a \in RandomAmounts, down \in SUBSET groups :
          random_buy_now_scheduled_job(f, a, down)
    \/ \E c \in Chats, data \in {"check_lanlan_price", "start_lanlan_calculation"},
          f \in FetchResults, p \in BOOLEAN : button_handler(c, data, f, p)
    \/ \E c \in Chats, d \in DiskOutcomes : back_to_main_menu(c, d)
    \/ \E c \in Chats, cmd \in StaticCommands : static_reply(c, cmd)
    \/ \E c \in Chats, args \in FewLanlanArgs, f \in FewFetchResults :
          lanlan_command(c, args, f)
    \/ \E c \in Chats, u \in Users, l \in FewAdminLookups, args \in FewScheduleArgs,
          d \in DiskOutcomes : setschedule(c, "group", u, l, args, d)
    \/ \E c \in Chats, u \in Users, l \in FewAdminLookups, args \in FewScheduleArgs,
          d \in DiskOutcomes : setschedule2(c, "group", u, l, args, d)
    \/ Return

Spec == Init /\ [][Next]_vars

-----------------------------------------------------------------------------
(* The investment calculator: every argument list, price and supply *)

InitCalc == Import(TotalSupplyValues)

CalcFetchResults == {None} \cup {Some(p * TOTAL_SUPPLY) : p \in {0, 12, 25, 50}}

NextCalc ==
    \/ \E d \in DiskOutcomes : setup_application(None, d)
    \/ \E c \in Chats, args \in LanlanArgs, f \in CalcFetchResults :
          lanlan_command(c, args, f)
    \/ Return

SpecCalc == InitCalc /\ [][NextCalc]_vars

-----------------------------------------------------------------------------
(* The schedule commands: every caller, administrator list and argument *)

InitSchedule == Import({1})

NextSchedule ==
    \/ \E d \in DiskOutcomes : setup_application(None, d)
    \/ \E c \in Chats, d \in DiskOutcomes : start(c, d)
    \/ \E c \in Chats, t \in {"private", "group"}, u \in Users, l \in AdminLookups,
          args \in ScheduleArgs, d \in DiskOutcomes : setschedule(c, t, u, l, args, d)
    \/ \E c \in Chats, t \in {"private", "group"}, u \in Users, l \in AdminLookups,
          args \in ScheduleArgs, d \in DiskOutcomes : setschedule2(c, t, u, l, args, d)
    \/ \E f \in FewFetchResults, d \in DiskOutcomes, down \in SUBSET groups :
          scheduled_job(f, d, down)
    \/ \E f \in FewFetchResults, a \in RandomAmounts, down \in SUBSET groups :
          random_buy_now_scheduled_job(f, a, down)
    \/ Return

SpecSchedule == InitSchedule /\ [][NextSchedule]_vars

-----------------------------------------------------------------------------
(* generate_progress_bar on every value and range up to MaxBarValue *)

MaxBarValue == 6

InitBar ==
    /\ ImportState({1})
    /\ \E v \in 0..MaxBarValue, a \in 0..MaxBarValue, b \in 0..MaxBarValue :
          ev = [op |-> "generate_progress_bar", current_value |-> v,
                start_milestone |-> a, end_milestone |-> b]

Render ==
    /\ ev.op = "generate_progress_bar"
    /\ log = <<>>
    /\ log' = <<generate_progress_bar(ev.current_value, ev.start_milestone,
                                      ev.end_milestone)>>
    /\ UNCHANGED <<TOTAL_SUPPLY, started, settings, settings_file, groups, groups_file,
                   last_known_market_cap, current_investment_example_index,
                   SCHEDULED_INTERVAL, SCHEDULED_INTERVAL_STR, jobs, max_observed,
                   observed, ev>>

NextBar == Render

SpecBar == InitBar /\ [][NextBar]_vars

-----------------------------------------------------------------------------
(* Properties *)

Highest == Get(settings, "highest_milestone_achieved", 0)

Ladder == Range(milestones)

\* the largest ladder entry <= x, 0 when there is none
LargestAtMost(x) ==
    LET below == {m \in Ladder : m <= x}
    IN  IF below = {} THEN 0 ELSE CHOOSE m \in below : \A k \in below : k <= m

\* the smallest ladder entry > x, as a set: empty when there is none
SmallestAbove(x) ==
    LET above == {m \in Ladder : m > x}
    IN  {m \in above : \A k \in above : m <= k}

\* scheduled_job has just run, its fetch succeeded and it went past the early returns
JobObserved == ev.op = "scheduled_job" /\ ev.fetch # None /\ TOTAL_SUPPLY # 0

\* the sends of the running handler, by message kind
Sends(kind) == {i \in DOMAIN log : log[i].type = "send" /\ log[i].msg.kind = kind}

\* the milestones the running handler celebrated to chat g
CelebratedTo(g) == {log[i].msg.milestone_cap : i \in {k \in Sends("milestone") : log[k].to = g}}

(* C1: from one scheduled_job run to the next (and across every other step)  *)
(* highest_milestone_achieved never decreases, and it is always 0 or an entry *)
(* of the milestone ladder.  This holds for every sequence of observed market *)
(* caps, the non-decreasing ones included.                                    *)
C1_HighestMonotoneOnLadder ==
    /\ Highest \in Ladder \cup {0}
    /\ [][Highest' >= Highest /\ Highest' \in Ladder \cup {0}]_vars

\* a run observed a market cap no smaller than the one before and raised an
\* already positive highest_milestone_achieved
C1_Witness ==
    /\ JobObserved
    /\ ev.ran_before
    /\ ev.fetch[1] >= ev.last_known[1]
    /\ ev.highest > 0
    /\ Highest > ev.highest

(* C2: highest_milestone_achieved never exceeds the largest ladder entry that *)
(* is <= the largest market cap a successful scheduled run has observed so    *)
(* far (0 when no run has observed one or no ladder entry qualifies).         *)
C2_HighestWithinObserved ==
    Highest <= (IF max_observed = None THEN 0 ELSE LargestAtMost(max_observed[1]))

\* the market cap has fallen back below a milestone reached earlier, and a
\* later fetch failed
C2_Witness ==
    /\ ev.op = "scheduled_job"
    /\ ev.fetch = None
    /\ Highest >= 20
    /\ Highest = LargestAtMost(max_observed[1])
    /\ last_known_market_cap[1] < Highest

(* C3: a successful scheduled_job run with previous observation last_known    *)
(* and market cap c sends every registered chat one celebration for each      *)
(* ladder entry m with last_known < m <= c, and no other celebration.         *)
C3_CelebratesCrossed ==
    JobObserved =>
        /\ \A g \in ev.groups :
              /\ CelebratedTo(g) =
                     {m \in Ladder : ev.last_known[1] < m /\ m <= ev.fetch[1]}
              /\ Cardinality({i \in Sends("milestone") : log[i].to = g}) =
                     Cardinality(CelebratedTo(g))
        /\ \A i \in Sends("milestone") : log[i].to \in ev.groups

\* a rise from 4 to 22 (millions) celebrates 10 and 20 to a registered chat
C3_Witness ==
    /\ JobObserved
    /\ ev.last_known = Some(4)
    /\ ev.fetch = Some(22)
    /\ \E g \in ev.groups : CelebratedTo(g) = {10, 20}

(* C4: when neither setup_application nor an earlier run has fetched a market *)
(* cap, the first successful scheduled_job observation sends no milestone     *)
(* celebration, whatever the market cap is.                                   *)
C4_FirstObservationSilent ==
    (JobObserved /\ ~ev.observed) => Sends("milestone") = {}

(* C5: a successful scheduled_job run that observes the market cap the        *)
(* previous successful run observed leaves highest_milestone_achieved as it   *)
(* was and sends no milestone celebration.                                    *)
C5_SameCapIdempotent ==
    (JobObserved /\ ev.ran_before /\ ev.last_known = ev.fetch) =>
        /\ Highest = ev.highest
        /\ Sends("milestone") = {}

\* the second of two runs at a market cap on or above a milestone, with a chat registered
C5_Witness ==
    /\ JobObserved
    /\ ev.ran_before
    /\ ev.last_known = ev.fetch
    /\ ev.fetch[1] >= 10
    /\ ev.groups # {}
    /\ Highest >= 10
    /\ Sends("update") # {}

\* the messages of the running handler that show a progress range
ShownRanges == {log[i].msg : i \in Sends("update") \cup Sends("price_status")}

\* the end of the range that starts at x: the next ladder entry, or 1.5 x past the top
EndAfter(x) == IF SmallestAbove(x) = {} THEN {(3 * x) \div 2} ELSE SmallestAbove(x)

(* C6, as claimed: the range shown by scheduled_job and by the price check    *)
(* starts at the highest ladder entry <= highest_milestone_achieved and ends  *)
(* at the next ladder entry above that start (1.5 times the start past the    *)
(* top of the ladder), also when the market cap has fallen below a milestone  *)
(* reached earlier.                                                           *)
C6_AlwaysAnchoredOnHighest ==
    \A msg \in ShownRanges :
        /\ msg.start = LargestAtMost(Highest)
        /\ msg.next_target \in EndAfter(msg.start)

(* C6, amended: the range is anchored on highest_milestone_achieved while the *)
(* market cap is at or above that start; once the market cap has fallen below *)
(* it, the range is the ladder window around the market cap: it starts at the *)
(* largest ladder entry <= the market cap (0 when there is none) and ends at  *)
(* the smallest ladder entry above the market cap.                            *)
C6_AnchoredUnlessRegressed ==
    \A msg \in ShownRanges :
        IF msg.mc >= LargestAtMost(Highest)
        THEN /\ msg.start = LargestAtMost(Highest)
             /\ msg.next_target \in EndAfter(msg.start)
        ELSE /\ msg.start = LargestAtMost(msg.mc)
             /\ msg.next_target \in SmallestAbove(msg.mc)

\* a run at 4 after 20 was reached shows the range from 0 to 10
C6_Witness ==
    /\ JobObserved
    /\ Highest = 20
    /\ \E msg \in ShownRanges :
          msg.kind = "update" /\ msg.mc = 4 /\ msg.start = 0 /\ msg.next_target = 10


-----------------------------------------------------------------------------
(* generate_progress_bar *)

Rendered == ev.op = "generate_progress_bar" /\ log # <<>>

\* C7: for every start < end the bar shows 0% at value = start and below it,
\* 100% at value = end and above it, and always a percentage within [0, 100]
C7_BarClamped ==
    (Rendered /\ ev.start_milestone < ev.end_milestone) =>
        /\ log[1].shown >= 0 /\ log[1].shown <= 100
        /\ ev.current_value <= ev.start_milestone => log[1].shown = 0
        /\ ev.current_value >= ev.end_milestone => log[1].shown = 100

C7_Witness ==
    /\ Rendered
    /\ ev.start_milestone < ev.end_milestone
    /\ ev.current_value > ev.end_milestone
    /\ ev.start_milestone > 0
    /\ log[1].shown = 100 /\ log[1].filled_blocks = 10

-----------------------------------------------------------------------------
(* The investment calculator *)

Calculated == ev.op = "lanlan_command" /\ Len(ev.args) = 2

Answer == log[1].msg

\* C8: "/lanlan <investment> <entry_market_cap>" answers with a refusal and no
\* calculation whenever the investment, the entry market cap or the total
\* supply is zero or negative
C8_NonPositiveRefused ==
    (/\ Calculated
     /\ float(ev.args[1]) # None /\ float(ev.args[2]) # None
     /\ \/ float(ev.args[1])[1] <= 0
        \/ float(ev.args[2])[1] <= 0
        \/ TOTAL_SUPPLY <= 0)
    => Answer.kind \in {"positive_numbers_please", "supply_zero", "fetch_failed"}

\* C9: a calculation is linear in the market cap ratio, whatever the supply:
\* current_value = investment * current_market_cap / entry_market_cap and each
\* projection = investment * target_cap / entry_market_cap
C9_LinearInMarketCapRatio ==
    (Calculated /\ Answer.kind = "calculation") =>
        /\ Answer.current_value =
               Money(Frac(Answer.investment * Answer.mc, Answer.initial_market_cap))
        /\ \A i \in DOMAIN target_caps :
               Answer.future_projections[i] =
                   Money(Frac(Answer.investment * target_caps[i],
                              Answer.initial_market_cap))

C9_Witness ==
    /\ Calculated /\ Answer.kind = "calculation"
    /\ TOTAL_SUPPLY = 2
    /\ Answer.investment = 100 /\ Answer.initial_market_cap = 5 /\ Answer.mc = 50
    /\ Answer.current_value = [neg |-> FALSE, dollars |-> 1000, cents |-> 0]
    /\ Answer.future_projections[1] = [neg |-> FALSE, dollars |-> 2000, cents |-> 0]

-----------------------------------------------------------------------------
(* The schedule commands *)

ScheduleCommands == {"setschedule", "setschedule2"}

\* the caller of the command in ev was looked up and is no administrator
NotAdmin(e) ==
    /\ e.op \in ScheduleCommands
    /\ e.chat_type # "private"
    /\ ~e.lookup.raised
    /\ e.user \notin e.lookup.admins

\* C10: setschedule and setschedule2 from a caller who is no administrator of
\* the group are refused with one reply, whatever the argument, and leave the
\* intervals in memory, settings.json and the registered jobs as they were
C10_NonAdminChangesNothing ==
    [][(ev = Idle /\ NotAdmin(ev')) =>
          /\ UNCHANGED <<settings, settings_file, SCHEDULED_INTERVAL,
                         SCHEDULED_INTERVAL_STR, jobs>>
          /\ log' = <<Reply(ev'.chat, [kind |-> "admins_only"])>>]_vars

C10_Witness ==
    /\ NotAdmin(ev)
    /\ ev.op = "setschedule2"
    /\ ev.lookup.admins # {}
    /\ ev.args = << <<"2", "h">> >>
    /\ log = <<Reply(ev.chat, [kind |-> "admins_only"])>>
    /\ Get(settings, "random_buy_now_interval_str", None) # <<"2", "h">>
    /\ \A i \in DOMAIN jobs : jobs[i].name # "random_buy_now_job"

\* "<integer>h" or "<integer>m", and nothing else
ExactForm(s) ==
    /\ Len(s) >= 2
    /\ \A i \in 1..(Len(s) - 1) : IsDigit(s[i])
    /\ s[Len(s)] \in {"h", "m"}

\* the command in ev came from an administrator of a group, with one argument
AdminWithOneArgument ==
    /\ ev.op \in ScheduleCommands
    /\ ev.chat_type # "private"
    /\ ~ev.lookup.raised
    /\ ev.user \in ev.lookup.admins
    /\ Len(ev.args) = 1

\* C11: an administrator's setschedule or setschedule2 with an argument that
\* is not exactly <integer>h or <integer>m is answered as an invalid interval
\* (and so changes neither the schedule configuration nor the jobs)
C11_MalformedIntervalRefused ==
    (AdminWithOneArgument /\ ~ExactForm(ev.args[1])) =>
        /\ ev.verdict = "invalid_interval"
        /\ log = <<Reply(ev.chat, [kind |-> "invalid_interval"])>>

\* the seconds "<N>h" and "<N>m" stand for
SecondsOf(s) ==
    int(SubSeq(s, 1, Len(s) - 1)) * (IF s[Len(s)] = "h" THEN 3600 ELSE 60)

JobsNamed(q, name) == SelectSeq(q, LAMBDA j : j.name = name)

JobsNotNamed(q, name) == SelectSeq(q, LAMBDA j : j.name # name)

-----------------------------------------------------------------------------
(* setschedule and setschedule2 as coroutines.  A webhook request awaits      *)
(* process_update (app.py:75), so several handlers can be in flight; each      *)
(* yields at "await get_chat_administrators" (bot.py:486, 579) and runs from   *)
(* there to its reply without yielding.  ev holds the calls that wait there.   *)

MaxWaiting == 2

WaitingCalls(e) == IF e.op = "awaiting" THEN e.waiting ELSE {}

\* bot.py:477-486, 570-579: up to the await of the administrator list
schedule_call(command, chat_id, chat_type, user_id, args) ==
    /\ started
    /\ ev = Idle \/ ev.op = "awaiting"
    /\ Cardinality(WaitingCalls(ev)) < MaxWaiting
    /\ LET call == [op |-> command, chat |-> chat_id, chat_type |-> chat_type,
                    user |-> user_id, args |-> args]
       IN  IF chat_type = "private"
           THEN /\ ev' = [op |-> "awaiting", waiting |-> WaitingCalls(ev)]
                /\ log' = <<Reply(chat_id, [kind |-> "group_only"])>>
           ELSE /\ ev' = [op |-> "awaiting", waiting |-> WaitingCalls(ev) \cup {call}]
                /\ log' = <<>>
    /\ UNCHANGED <<TOTAL_SUPPLY, started, settings, settings_file, groups, groups_file,
                   last_known_market_cap, current_investment_example_index,
                   SCHEDULED_INTERVAL, SCHEDULED_INTERVAL_STR, jobs, max_observed, observed>>

\* bot.py:486-520, 579-614: from the administrator list to the reply
schedule_resume(call, lookup, disk_ok) ==
    /\ ev.op = "awaiting"
    /\ call \in ev.waiting
    /\ LET verdict == ScheduleVerdict(call.chat_type, call.user, lookup, call.args)
           main == call.op = "setschedule"
           name == IF main THEN "scheduled_price_update" ELSE "random_buy_now_job"
       IN  /\ ev' = [op |-> "awaiting", waiting |-> ev.waiting \ {call},
                     resumed |-> call, verdict |-> verdict]
           /\ IF verdict = "accepted"
              THEN LET new_interval_str == call.args[1]
                       new_interval_seconds == parse_interval_string(new_interval_str)[1]
                       updated ==
                           IF main
                           THEN Put(Put(settings, "scheduled_interval_seconds",
                                        new_interval_seconds),
                                    "scheduled_interval_str", new_interval_str)
                           ELSE Put(Put(settings, "random_buy_now_interval_seconds",
                                        new_interval_seconds),
                                    "random_buy_now_interval_str", new_interval_str)
                   IN  /\ SCHEDULED_INTERVAL' =
                              IF main THEN new_interval_seconds ELSE SCHEDULED_INTERVAL
                       /\ SCHEDULED_INTERVAL_STR' =
                              IF main THEN new_interval_str ELSE SCHEDULED_INTERVAL_STR
                       /\ settings' = updated
                       /\ settings_file' = save_json(settings_file, updated, disk_ok)
                       /\ jobs' = Append(RemoveJobsByName(jobs, name),
                                         IF main
                                         THEN Job(name, "scheduled_job",
                                                  new_interval_seconds, SCHEDULED_FIRST)
                                         ELSE Job(name, "random_buy_now_scheduled_job",
                                                  new_interval_seconds, 60))
                       /\ log' = <<Saved("settings", updated),
                                   Reply(call.chat,
                                         [kind |-> IF main THEN "schedule_updated"
                                                   ELSE "schedule2_updated",
                                          interval |-> new_interval_str])>>
              ELSE /\ log' = <<Reply(call.chat, [kind |-> verdict])>>
                   /\ UNCHANGED <<SCHEDULED_INTERVAL, SCHEDULED_INTERVAL_STR, settings,
                                  settings_file, jobs>>
    /\ UNCHANGED <<TOTAL_SUPPLY, started, groups, groups_file, last_known_market_cap,
                   current_investment_example_index, max_observed, observed>>

\* the calls come from one group chat, from its administrator and from another
\* user, with the two valid forms of the interval
ConcurrentScheduleArgs == {<< <<"2", "h">> >>, << <<"3", "0", "m">> >>}

InitConcurrent == Import({1})

NextConcurrent ==
    \/ \E d \in DiskOutcomes : setup_application(None, d)
    \/ ev.op = "setup_application" /\ Return
    \/ \E command \in ScheduleCommands, t \in {"private", "group"},
          u \in Users, args \in ConcurrentScheduleArgs : schedule_call(command, 1, t, u, args)
    \/ \E call \in WaitingCalls(ev), l \in AdminLookups, d \in DiskOutcomes :
          schedule_resume(call, l, d)

SpecConcurrent == InitConcurrent /\ [][NextConcurrent]_vars

JobNames == {"scheduled_price_update", "random_buy_now_job"}

\* C13: from startup on, however calls of setschedule and setschedule2
\* succeed, fail and interleave, the job queue holds at most one job under
\* each of the names scheduled_price_update and random_buy_now_job
C13_OneJobPerName == \A name \in JobNames : Len(JobsNamed(jobs, name)) <= 1

C13_Witness ==
    /\ ev.op = "awaiting" /\ ev.waiting # {}
    /\ "resumed" \in DOMAIN ev /\ ev.verdict = "accepted"
    /\ ev.resumed.op = "setschedule"
    /\ \E w \in ev.waiting : w.op = "setschedule" /\ w.args # ev.resumed.args
    /\ JobsNamed(jobs, "scheduled_price_update") =
           <<Job("scheduled_price_update", "scheduled_job", 1800, SCHEDULED_FIRST)>>
    /\ Len(JobsNamed(jobs, "random_buy_now_job")) = 1

-----------------------------------------------------------------------------
(* Broadcasts *)

\* the sends of one kind that the running handler attempted to chat g
Attempts(kind, g) == {i \in Sends(kind) : log[i].to = g}

\* random_buy_now_scheduled_job has just run and went past its early returns
RandomJobBroadcast ==
    /\ ev.op = "random_buy_now_scheduled_job"
    /\ ev.fetch # None /\ TOTAL_SUPPLY # 0 /\ ev.fetch[1] # 0

\* C14: the scheduled update, each milestone celebration and the random
\* buy-now message are each attempted once to every chat registered when the
\* job runs, whichever of the sends fail, and the job runs to its end
C14_BroadcastReachesEveryChat ==
    /\ JobObserved =>
          /\ \A g \in ev.groups :
                /\ Cardinality(Attempts("update", g)) = 1
                /\ \A m \in {x \in Ladder : ev.last_known[1] < x /\ x <= ev.fetch[1]} :
                      Cardinality({i \in Attempts("milestone", g) :
                                      log[i].msg.milestone_cap = m}) = 1
          /\ last_known_market_cap = ev.fetch
    /\ RandomJobBroadcast =>
          \A g \in ev.groups : Cardinality(Attempts("random_buy_now", g)) = 1

\* the first send of a celebration and of the update fail, the later ones are made
C14_Witness ==
    /\ JobObserved
    /\ Cardinality(ev.groups) >= 2
    /\ \E i, j \in Sends("milestone") :
           i < j /\ ~log[i].ok /\ log[i].msg = log[j].msg /\ log[i].to # log[j].to
    /\ \E i, j \in Sends("update") : i < j /\ ~log[i].ok /\ log[j].ok

-----------------------------------------------------------------------------
(* Fetch failures *)

ScheduledRuns == {"scheduled_job", "random_buy_now_scheduled_job"}

\* C15: a scheduled_job or random_buy_now_scheduled_job run whose fetch fails
\* sends nothing and changes nothing: highest_milestone_achieved and the rest
\* of settings, settings.json, last_known_market_cap, the investment example
\* index, the chats and the jobs are as before, so the next run finds the
\* state this one found
C15_FailedFetchChangesNothing ==
    [][(ev = Idle /\ ev'.op \in ScheduledRuns /\ ev'.fetch = None) =>
          /\ log' = <<>>
          /\ UNCHANGED <<settings, settings_file, last_known_market_cap,
                         current_investment_example_index, groups, groups_file, jobs,
                         SCHEDULED_INTERVAL, SCHEDULED_INTERVAL_STR>>]_vars

\* a failed run after a run that recorded a milestone and registered chats
C15_Witness ==
    /\ ev.op = "scheduled_job" /\ ev.fetch = None /\ ev.ran_before
    /\ log = <<>>
    /\ ev.groups # {}
    /\ ev.highest >= 10 /\ Highest = ev.highest
    /\ ev.last_known[1] >= 10 /\ last_known_market_cap = ev.last_known
    /\ current_investment_example_index # 0

-----------------------------------------------------------------------------
(* The registered chats *)

-----------------------------------------------------------------------------
(* The replies of lanlan_command *)

FutureBuyShape(args) == Len(args) = 4 /\ args[1] = <<"x">> /\ args[3] = <<"x">>

\* the arguments of the list that stand for amounts
AmountArguments(args) ==
    IF FutureBuyShape(args) THEN {args[2], args[4]}
    ELSE IF Len(args) = 2 THEN {args[1], args[2]}
    ELSE {}

PositiveNumber(a) == float(a) # None /\ ~IsNaN(float(a)) /\ float(a)[1] > 0

\* neither of the two accepted shapes, or an amount that is no positive number
Malformed(args) ==
    \/ ~FutureBuyShape(args) /\ Len(args) # 2
    \/ \E a \in AmountArguments(args) : ~PositiveNumber(a)

\* the replies that carry a calculation
CalculationReplies ==
    {"calculation", "calculation_of_nan", "future_buy", "future_buy_of_nan"}

\* C17: lanlan_command sends exactly one reply, to the requester, for every
\* argument list and fetch result, and a malformed list is never answered
\* with a calculation
C17_OneReplyAndNoCalculationOnMalformed ==
    ev.op = "lanlan_command" =>
        /\ Len(log) = 1
        /\ log[1].type = "send" /\ log[1].to = ev.chat
        /\ Malformed(ev.args) => Answer.kind \notin CalculationReplies

-----------------------------------------------------------------------------
(* Persistence of the tracker *)

\* the saves of settings.json made by the running handler
SettingsSaves == {i \in DOMAIN log : log[i].type = "save" /\ log[i].file = "settings"}

AllSends == {i \in DOMAIN log : log[i].type = "send"}

\* C18: a scheduled_job run that changes highest_milestone_achieved saves
\* settings with the new value before its first send, and at the end of every
\* run settings.json holds the in-memory value (writes succeed)
C18_SavedBeforeSent ==
    ev.op = "scheduled_job" =>
        /\ Highest # ev.highest =>
              \E i \in SettingsSaves :
                  /\ log[i].data["highest_milestone_achieved"] = Highest
                  /\ \A j \in AllSends : i < j
        /\ settings_file.exists
        /\ settings_file.data["highest_milestone_achieved"] = Highest

\* a run that passes two milestones saves twice and then celebrates both
C18_Witness ==
    /\ JobObserved
    /\ ev.highest = 0 /\ Highest = 20
    /\ Cardinality(SettingsSaves) = 2
    /\ Sends("milestone") # {} /\ Sends("update") # {}
    /\ settings_file.data["highest_milestone_achieved"] = 20

-----------------------------------------------------------------------------
(* Who writes the tracker *)

\* the steps that are no command and no button: startup, the scheduled update,
\* and a handler's return
TrackerWriters == {"setup_application", "scheduled_job", "idle"}

PersistedHighest == IF settings_file.exists
                    THEN Some(Get(settings_file.data, "highest_milestone_achieved", 0))
                    ELSE None

\* C19: no command and no button (start, help, wen, lanlan, the price check,
\* setschedule, setschedule2, back_to_main, and the rest) changes
\* highest_milestone_achieved, in memory or in settings.json, or
\* last_known_market_cap, whatever market cap it fetches
C19_CommandsLeaveTracker ==
    [][(ev = Idle /\ ev'.op \notin TrackerWriters) =>
          /\ Highest' = Highest
          /\ PersistedHighest' = PersistedHighest
          /\ last_known_market_cap' = last_known_market_cap]_vars

\* the price check shows a market cap above a milestone that is not recorded
C19_Witness ==
    /\ ev.op = "button_handler" /\ ev.data = "check_lanlan_price"
    /\ ev.fetch # None
    /\ LargestAtMost(ev.fetch[1]) > ev.highest
    /\ Highest = ev.highest
    /\ last_known_market_cap[1] < ev.fetch[1]
    /\ \E i \in Sends("price_status") : log[i].msg.mc = ev.fetch[1]

-----------------------------------------------------------------------------
(* The supremum *)

Max(a, b) == IF a >= b THEN a ELSE b

\* C20: a successful scheduled_job run that observes market cap c with
\* highest_milestone_achieved = h leaves it at max(h, largest ladder entry <= c),
\* however many milestones lie between
C20_LandsOnSupremum ==
    JobObserved => Highest = Max(ev.highest, LargestAtMost(ev.fetch[1]))

\* from 10 (millions) straight to the top of the ladder
C20_Witness ==
    /\ JobObserved
    /\ ev.highest = 10 /\ ev.fetch = Some(12000)
    /\ Highest = 10000
    /\ Cardinality(SettingsSaves) = Len(milestones) - 1

-----------------------------------------------------------------------------
(* The jobs registered at startup *)

\* the positive intervals setup_application has read (bot.py:775-777, 813, 820)
PositiveStartupIntervals ==
    /\ SCHEDULED_INTERVAL > 0
    /\ Get(settings, "random_buy_now_interval_seconds", 14400) > 0

\* C21: when setup_application completes with positive configured intervals,
\* the job queue holds both repeating jobs, scheduled_price_update and
\* random_buy_now_job
C21_BothJobsRegistered ==
    (ev.op = "setup_application" /\ PositiveStartupIntervals)
        => \A name \in JobNames : Len(JobsNamed(jobs, name)) = 1

-----------------------------------------------------------------------------
(* The buttons *)

\* the successful sends of the running handler to its chat, by kind of message
SentToChat(kinds) ==
    {i \in DOMAIN log : /\ log[i].type = "send" /\ log[i].ok
                        /\ log[i].to = ev.chat /\ log[i].msg.kind \in kinds}

PriceCheckReplies == {"price_status", "fetch_failed", "supply_zero"}

\* each of the two buttons of button_handler reaches its command logic
ButtonHandlerRouted ==
    ev.op = "button_handler" =>
        /\ ev.data = "check_lanlan_price" => SentToChat(PriceCheckReplies) # {}
        /\ ev.data = "start_lanlan_calculation" => SentToChat({"usage"}) # {}

\* C22: check price runs the price check, start calculation sends the usage
\* text, and back_to_main runs the start logic: the chat is registered and the
\* main menu is sent to it
C22_ButtonsRouted ==
    /\ ButtonHandlerRouted
    /\ ev.op = "back_to_main_menu" =>
          /\ ev.chat \in groups
          /\ SentToChat({"main_menu"}) # {}

-----------------------------------------------------------------------------
(* The range handed to generate_progress_bar by its two callers, on every    *)
(* recorded milestone and on the market caps around every ladder entry       *)

RangeCallers == {"scheduled_job", "lanlan_price_status"}

\* 0, each ladder entry with its two neighbours, and the market caps around
\* one and a half times the top of the ladder
RangeCaps ==
    {0} \cup UNION {{m - 1, m, m + 1} : m \in Ladder}
        \cup {TimesOneAndHalf(milestones[Len(milestones)]) + d : d \in {-1, 0, 1}}

InitRange ==
    /\ ImportState({1})
    /\ \E caller \in RangeCallers, h \in Ladder \cup {0}, c \in RangeCaps :
          ev = [op |-> "progress_range", caller |-> caller, highest |-> h, market_cap |-> c]

\* bot.py:637-674 (scheduled_job raises the milestone first) and bot.py:274-306
progress_range ==
    /\ ev.op = "progress_range"
    /\ log = <<>>
    /\ LET highest == IF ev.caller = "scheduled_job"
                      THEN UpdateHighest(ev.highest, ev.market_cap)
                      ELSE ev.highest
           range == ProgressRange(highest, ev.market_cap)
       IN  log' = <<[range |-> range,
                     progress_bar |-> generate_progress_bar(ev.market_cap,
                                                            range[1], range[2])]>>
    /\ UNCHANGED <<TOTAL_SUPPLY, started, settings, settings_file, groups, groups_file,
                   last_known_market_cap, current_investment_example_index,
                   SCHEDULED_INTERVAL, SCHEDULED_INTERVAL_STR, jobs, max_observed,
                   observed, ev>>

NextRange == progress_range

SpecRange == InitRange /\ [][NextRange]_vars

RangeComputed == ev.op = "progress_range" /\ log # <<>>

\* C23: for every market cap >= 0 and every recorded milestone in the ladder or
\* 0, the range the two callers hand to generate_progress_bar has start < end,
\* so the bar is never the full bar or the error text of the degenerate branch;
\* in scheduled_job, a market cap below 1.5 times the top of the ladder lies in
\* [start, end)
C23_RangeNeverDegenerate ==
    RangeComputed =>
        LET start_milestone == log[1].range[1]
            end_milestone == log[1].range[2]
        IN  /\ start_milestone < end_milestone
            /\ log[1].progress_bar.text = "bar"
            /\ (/\ ev.caller = "scheduled_job"
                /\ ev.market_cap < TimesOneAndHalf(milestones[Len(milestones)]))
                    => (start_milestone <= ev.market_cap /\ ev.market_cap < end_milestone)

\* the market cap has fallen from the top of the ladder to below its first entry
C23_Witness ==
    /\ RangeComputed
    /\ ev.caller = "scheduled_job"
    /\ ev.highest = milestones[Len(milestones)] /\ ev.market_cap = milestones[1] - 1
    /\ log[1].range = <<0, milestones[1]>>
    /\ log[1].progress_bar.shown = 90

-----------------------------------------------------------------------------
(* main.py:13-60 LifespanASGIApp and app.py:30-61 init_telegram_app.          *)
(*                                                                           *)
(* main.py:4 imports the initializer as init_telegram_app_async, app.py      *)
(* defines it as init_telegram_app.  app.py:54-61 runs it once while the     *)
(* module is imported; a deployment that leaves the initialization to the    *)
(* ASGI wrapper, as main.py:35 and 52 expect, starts without that step.      *)
(* Both starts are covered: import_init is taken first or not at all.        *)
(*                                                                           *)
(* Each call of the wrapper is a task of the event loop and yields at its    *)
(* awaits only.  setup_application contains no await, so the test            *)
(* "telegram_app is None" and the assignment of its result are one step; the *)
(* awaits of initialize, start and setWebhook (app.py:42-47) follow it.      *)
(* The state of this layer is kept in ev:                                    *)
(*   telegram_app       app.py:17, TRUE when it is not None                  *)
(*   startup_completed  main.py:15                                           *)
(*   lifespan           where the lifespan task is, startups the startup     *)
(*                      messages it has answered                             *)
(*   requests           where each HTTP request is                           *)
(*   initialized        history: a call of init_telegram_app has run to its  *)
(*                      end without raising                                  *)
(*   setups             history: the runs of setup_application that returned *)
(*   early              history: the requests delegated before initialized   *)
(*   exited             main.py:31 sys.exit(1)                               *)

\* HTTP requests that reach the wrapper
MaxRequests == 2
\* lifespan.startup messages the lifespan task receives
MaxStartups == 2

Requests == 1..MaxRequests

AsgiStart ==
    [op |-> "asgi", telegram_app |-> FALSE, startup_completed |-> FALSE,
     lifespan |-> "receive", startups |-> 0,
     requests |-> [r \in Requests |-> "none"],
     initialized |-> FALSE, setups |-> 0, early |-> {}, exited |-> FALSE]

InitAsgi == ImportState({1}) /\ ev = AsgiStart

BotUnchanged ==
    UNCHANGED <<TOTAL_SUPPLY, started, settings, settings_file, groups, groups_file,
                last_known_market_cap, current_investment_example_index,
                SCHEDULED_INTERVAL, SCHEDULED_INTERVAL_STR, jobs, max_observed,
                observed, log>>

\* app.py:54-61: loop.run_until_complete(init_telegram_app()) while the module is
\* imported; a failure is raised again and the process does not start
import_init(initial_mc, disk_ok) ==
    /\ ev = AsgiStart
    /\ SetupState(initial_mc, disk_ok)
    /\ ev' = [ev EXCEPT !.telegram_app = TRUE, !.initialized = TRUE, !.setups = 1]

\* app.py:33-36: the first step of init_telegram_app when telegram_app is None.
\* setup_application returns the application, or raises (bot.py:753-763)
\* and leaves telegram_app None.
SetupStep(e, setup_ok, initial_mc, disk_ok) ==
    IF setup_ok
    THEN /\ SetupState(initial_mc, disk_ok)
         /\ ev' = [e EXCEPT !.telegram_app = TRUE, !.setups = @ + 1]
    ELSE /\ ev' = e
         /\ BotUnchanged

\* app.py:33 "if telegram_app is None"
NeedsSetup(e) == ~e.telegram_app

\* main.py:22-35: the lifespan task receives lifespan.startup
lifespan_startup(setup_ok, initial_mc, disk_ok) ==
    /\ ev.op = "asgi" /\ ~ev.exited
    /\ ev.lifespan = "receive"
    /\ ev.startups < MaxStartups
    /\ IF ev.startup_completed
       THEN \* main.py:33-35
            /\ ev' = [ev EXCEPT !.startups = @ + 1]
            /\ BotUnchanged
       ELSE IF ~NeedsSetup(ev)
       THEN \* init_telegram_app returns at once; main.py:28-29
            /\ ev' = [ev EXCEPT !.startup_completed = TRUE, !.startups = @ + 1]
            /\ BotUnchanged
       ELSE IF setup_ok
       THEN SetupStep([ev EXCEPT !.lifespan = "initializing"], TRUE, initial_mc, disk_ok)
       ELSE \* main.py:30-32
            SetupStep([ev EXCEPT !.exited = TRUE], FALSE, initial_mc, disk_ok)

\* app.py:39-47 finish or raise; main.py:26-32
lifespan_resume(init_ok) ==
    /\ ev.op = "asgi" /\ ~ev.exited
    /\ ev.lifespan = "initializing"
    /\ ev' = IF init_ok
             THEN [ev EXCEPT !.initialized = TRUE, !.startup_completed = TRUE,
                             !.lifespan = "receive", !.startups = @ + 1]
             ELSE [ev EXCEPT !.exited = TRUE]
    /\ BotUnchanged

\* main.py:61: the request is handed to the wrapped app
Delegate(e, r) ==
    [e EXCEPT !.requests[r] = "delegated",
              !.early = IF e.initialized THEN @ ELSE @ \cup {r}]

\* main.py:48-61: an HTTP request reaches the wrapper
http_request(r, setup_ok, initial_mc, disk_ok) ==
    /\ ev.op = "asgi" /\ ~ev.exited
    /\ ev.requests[r] = "none"
    /\ IF ev.startup_completed
       THEN /\ ev' = Delegate(ev, r)
            /\ BotUnchanged
       ELSE IF ~NeedsSetup(ev)
       THEN \* init_telegram_app returns at once; main.py:54, 61
            /\ ev' = Delegate([ev EXCEPT !.startup_completed = TRUE], r)
            /\ BotUnchanged
       ELSE IF setup_ok
       THEN SetupStep([ev EXCEPT !.requests[r] = "initializing"], TRUE,
                      initial_mc, disk_ok)
       ELSE \* main.py:55-58
            SetupStep([ev EXCEPT !.requests[r] = "raised"], FALSE, initial_mc, disk_ok)

\* app.py:39-47 finish or raise; main.py:53-61
http_resume(r, init_ok) ==
    /\ ev.op = "asgi" /\ ~ev.exited
    /\ ev.requests[r] = "initializing"
    /\ ev' = IF init_ok
             THEN Delegate([ev EXCEPT !.initialized = TRUE, !.startup_completed = TRUE], r)
             ELSE [ev EXCEPT !.requests[r] = "raised"]
    /\ BotUnchanged

NextAsgi ==
    \/ \E f \in FewFetchResults, d \in DiskOutcomes : import_init(f, d)
    \/ \E ok \in BOOLEAN, f \in FewFetchResults, d \in DiskOutcomes :
          lifespan_startup(ok, f, d)
    \/ \E ok \in BOOLEAN : lifespan_resume(ok)
    \/ \E r \in Requests, ok \in BOOLEAN, f \in FewFetchResults, d \in DiskOutcomes :
          http_request(r, ok, f, d)
    \/ \E r \in Requests, ok \in BOOLEAN : http_resume(r, ok)

SpecAsgi == InitAsgi /\ [][NextAsgi]_vars

\* setup_application returns at most once
SetupAtMostOnce == ev.op = "asgi" => ev.setups <= 1

====
